---- MODULE Spec2Model ----
(***************************************************************************)
(* The snarkOS peer-to-peer message codec (src/src/network/message.rs):    *)
(* the Message enumeration, Message::serialize_into / Message::deserialize *)
(* and the length-delimited Encoder / Decoder built on them.               *)
(*                                                                         *)
(* Bytes are naturals in 0..255 and buffers are sequences of bytes.  Every *)
(* fixed-width integer is written with its real width, little-endian, as   *)
(* bincode's fixint encoding and to_le_bytes do.                           *)
(***************************************************************************)
EXTENDS Integers, Sequences, FiniteSets, TLC

VARIABLES
    message,    \* the Message handed to Encoder::encode (NoMessage if none)
    dst,        \* the encoder's output buffer (BytesMut)
    wire,       \* bytes written to the transport and not yet read
    source,     \* the decoder's receive buffer (BytesMut)
    item,       \* the outcome of the last Decoder::decode call
    last,       \* the receive buffer as it was when that call began
    prior,      \* the output buffer as it was when the last encode began
    sent,       \* the messages encoded so far, in order
    delivered,  \* the messages decode has returned so far, in order
    pc,         \* the position of the connection in its run
    held,       \* a Data<T> container in the hands of a caller
    writer,     \* the writer serialize_blocking_into writes to
    outcome,    \* the last operation on a Data<T>, its input and its result
    cells,      \* the static OnceCell of each accessor of Environment
    installs,   \* how many times each cell has been given a value
    threads,    \* each thread's position in the accessor it has called
    built,      \* the implementation of Environment last compiled
    large       \* a frame too long to write out: its sizes, and what became of it

codecVars == <<message, dst, wire, source, item, last, prior, sent, delivered, pc>>
dataVars == <<held, writer, outcome>>
staticVars == <<cells, installs, threads>>
vars == <<message, dst, wire, source, item, last, prior, sent, delivered, pc,
          held, writer, outcome, cells, installs, threads, built, large>>

---------------------------------------------------------------------------
(* Bounds of the model.                                                    *)

\* The longest payload (bytes after the ID) of a frame built by hand.
MaxPayload == 66
\* The largest 16-bit message ID a frame built by hand carries.
MaxId == 15
\* The number of messages one connection sends in the stream specification.
MaxMessages == 3
\* The longest byte string a Data<T> holds as a Buffer.
MaxBuffer == 3
\* The writer takes no further write once it holds this many bytes.
MaxWriter == 4
\* The largest HEARTBEAT_IN_SECS an implementation written outside the
\* presets chooses.
MaxHeartbeat == 9
\* The largest number of CPUs num_cpus::get() reports.
MaxCpus == 9

---------------------------------------------------------------------------
(* Integers and byte strings.                                              *)

\* The maximum size of a message (Environment::MAXIMUM_MESSAGE_SIZE), 128 MiB.
MAXIMUM_MESSAGE_SIZE == 128 * 1024 * 1024

RECURSIVE to_le_bytes(_, _)
\* The little-endian bytes of v in a field `width` bytes wide.
to_le_bytes(v, width) ==
    IF width = 0 THEN <<>>
    ELSE <<v % 256>> \o to_le_bytes(v \div 256, width - 1)

RECURSIVE from_le_bytes(_)
\* The integer a little-endian byte string denotes.
from_le_bytes(bytes) ==
    IF bytes = <<>> THEN 0
    ELSE Head(bytes) + 256 * from_le_bytes(Tail(bytes))

\* Rust's slice[a..b]: defined only when a <= b <= len, a panic otherwise.
InRange(slice, a, b) == a <= b /\ b <= Len(slice)
Slice(slice, a, b) == SubSeq(slice, a + 1, b)
\* Rust's slice[a..].
SliceFrom(slice, a) == SubSeq(slice, a + 1, Len(slice))

Zeros(n) == [i \in 1..n |-> 0]

---------------------------------------------------------------------------
(* Results.                                                                *)

Ok(v) == [ok |-> TRUE, val |-> <<v>>]
Err == [ok |-> FALSE, val |-> <<>>]
Unwrap(r) == r.val[1]

---------------------------------------------------------------------------
(* bincode, as the codec uses it: fixed-width little-endian integers, a    *)
(* u32 variant index for an enum, a u64 length before a Vec, the fields of *)
(* a tuple one after the other.  bincode::deserialize reads what the type  *)
(* needs from the front of the slice, fails when the slice is too short    *)
(* and does not look at what follows.                                      *)

\* NodeType (helpers/node_type.rs), in declaration order.
NodeTypeVariants == <<"Client", "Miner", "Beacon", "Sync", "Operator", "Prover">>
\* State (helpers/status.rs), in declaration order.
StateVariants == <<"Ready", "Mining", "Peering", "Syncing", "ShuttingDown">>

VariantIndex(variants, v) == (CHOOSE i \in 1..Len(variants) : variants[i] = v) - 1

bincode_serialize_uint(v, width) == to_le_bytes(v, width)

bincode_deserialize_uint(slice, width) ==
    IF Len(slice) < width THEN Err
    ELSE Ok(from_le_bytes(Slice(slice, 0, width)))

bincode_serialize_enum(variants, v) == to_le_bytes(VariantIndex(variants, v), 4)

bincode_deserialize_enum(variants, slice) ==
    IF Len(slice) < 4 THEN Err
    ELSE LET index == from_le_bytes(Slice(slice, 0, 4))
         IN  IF index < Len(variants) THEN Ok(variants[index + 1]) ELSE Err

\* A 32-byte value (N::BlockHash, Address<N>, N::PoSWNonce) is its 32 bytes.
bincode_serialize_bytes32(v) == v

bincode_deserialize_bytes32(slice) ==
    IF Len(slice) < 32 THEN Err ELSE Ok(Slice(slice, 0, 32))

\* A payload object (Block, BlockHeader, BlockLocators, BlockTemplate,
\* PoSWProof, Transaction) is a number written in two bytes.
bincode_serialize_object(x) == to_le_bytes(x, 2)

bincode_deserialize_object(slice) ==
    IF Len(slice) < 2 THEN Err ELSE Ok(from_le_bytes(Slice(slice, 0, 2)))

\* std::net::SocketAddr: the variant index, the octets of the address, the port.
V4(ip, port) == [v |-> "V4", ip |-> ip, port |-> port]
V6(ip, port) == [v |-> "V6", ip |-> ip, port |-> port]

bincode_serialize_addr(addr) ==
    to_le_bytes(IF addr.v = "V4" THEN 0 ELSE 1, 4) \o addr.ip \o to_le_bytes(addr.port, 2)

RECURSIVE bincode_serialize_addrs(_)
bincode_serialize_addrs(addrs) ==
    IF addrs = <<>> THEN <<>>
    ELSE bincode_serialize_addr(Head(addrs)) \o bincode_serialize_addrs(Tail(addrs))

bincode_serialize_vec(addrs) ==
    to_le_bytes(Len(addrs), 8) \o bincode_serialize_addrs(addrs)

\* One SocketAddr from the front of slice: <<the address, the bytes read>>.
bincode_deserialize_addr(slice) ==
    IF Len(slice) < 4 THEN Err
    ELSE LET tag == from_le_bytes(Slice(slice, 0, 4))
             octets == IF tag = 0 THEN 4 ELSE 16
         IN  IF tag > 1 \/ Len(slice) < 4 + octets + 2 THEN Err
             ELSE Ok(<<[v |-> IF tag = 0 THEN "V4" ELSE "V6",
                        ip |-> Slice(slice, 4, 4 + octets),
                        port |-> from_le_bytes(Slice(slice, 4 + octets, 4 + octets + 2))],
                       4 + octets + 2>>)

RECURSIVE bincode_deserialize_addrs(_, _)
bincode_deserialize_addrs(slice, count) ==
    IF count = 0 THEN Ok(<<>>)
    ELSE LET first == bincode_deserialize_addr(slice)
         IN  IF ~first.ok THEN Err
             ELSE LET rest == bincode_deserialize_addrs(
                                  SliceFrom(slice, Unwrap(first)[2]), count - 1)
                  IN  IF ~rest.ok THEN Err
                      ELSE Ok(<<Unwrap(first)[1]>> \o Unwrap(rest))

bincode_deserialize_vec(slice) ==
    IF Len(slice) < 8 THEN Err
    ELSE bincode_deserialize_addrs(SliceFrom(slice, 8), from_le_bytes(Slice(slice, 0, 8)))

---------------------------------------------------------------------------
(* Data<T>: a payload held as the object or as its bytes.                  *)

Object(x) == [state |-> "Object", object |-> x, bytes |-> <<>>]
\* Buffer that deserializes the bytes as soon as they are an object.
Buffer_deserialized(bytes) ==
    IF Len(bytes) >= 2
    THEN [state |-> "Object", object |-> from_le_bytes(Slice(bytes, 0, 2)), bytes |-> <<>>]
    ELSE [state |-> "Buffer", object |-> -1, bytes |-> bytes]

Buffer(bytes) == [state |-> "Buffer", object |-> -1, bytes |-> bytes]
NoData == [state |-> "Absent", object |-> -1, bytes |-> <<>>]

\* Data::serialize_blocking_into: what the call appends to the writer.
serialize_blocking_into(data) ==
    IF data.state = "Object" THEN bincode_serialize_object(data.object)
    ELSE data.bytes

\* What task::spawn_blocking(..).await can come to: the closure ran to its
\* end, or the JoinError of a closure that panicked or of a task cancelled
\* when the runtime shut down.
JoinOutcomes == {"completed", "panicked", "cancelled"}

\* bincode::ErrorKind::Custom(format!("<text>: {}", error)).
Custom(text, error) == [ok |-> FALSE, val |-> <<text, error>>]

\* task::spawn_blocking(closure).await, output being what the closure returns.
spawn_blocking(join, output) ==
    IF join = "completed" THEN Ok(output) ELSE Custom("JoinError", join)

\* Data::deserialize_blocking(self).
deserialize_blocking(data) ==
    IF data.state = "Object" THEN Ok(data.object)
    ELSE bincode_deserialize_object(data.bytes)

\* Data_deserialize that takes a failed worker for a decode error.
Data_deserialize_plain_error(data, join) ==
    IF data.state = "Object" THEN Ok(data.object)
    ELSE LET joined == spawn_blocking(join, bincode_deserialize_object(data.bytes))
         IN  IF joined.ok THEN Unwrap(joined) ELSE Err

\* Data::deserialize(self), the asynchronous one.
Data_deserialize(data, join) ==
    IF data.state = "Object" THEN Ok(data.object)
    ELSE LET joined == spawn_blocking(join, bincode_deserialize_object(data.bytes))
         IN  IF joined.ok THEN Unwrap(joined)
             ELSE Custom("Dedicated deserialization failed", joined.val[2])

\* Data_serialize that serializes the held bytes once more, as a byte string.
Data_serialize_again(data, join) ==
    IF data.state = "Object"
    THEN LET joined == spawn_blocking(join, Ok(bincode_serialize_object(data.object)))
         IN  IF joined.ok THEN Unwrap(joined)
             ELSE Custom("Dedicated serialization failed", joined.val[2])
    ELSE Ok(to_le_bytes(Len(data.bytes), 8) \o data.bytes)

\* Data::serialize(self), the asynchronous one.
Data_serialize(data, join) ==
    IF data.state = "Object"
    THEN LET joined == spawn_blocking(join, Ok(bincode_serialize_object(data.object)))
         IN  IF joined.ok THEN Unwrap(joined)
             ELSE Custom("Dedicated serialization failed", joined.val[2])
    ELSE Ok(data.bytes)

---------------------------------------------------------------------------
(* Message.                                                                *)

Message(variant, fields, data) == [variant |-> variant, fields |-> fields, data |-> data]

BlockRequest(start_block_height, end_block_height) ==
    Message("BlockRequest", <<start_block_height, end_block_height>>, NoData)
BlockResponse(block) == Message("BlockResponse", <<>>, block)
ChallengeRequest(version, fork_depth, node_type, status, listener_port, nonce, cumulative_weight) ==
    Message("ChallengeRequest",
            <<version, fork_depth, node_type, status, listener_port, nonce, cumulative_weight>>,
            NoData)
ChallengeResponse(block_header) == Message("ChallengeResponse", <<>>, block_header)
Disconnect == Message("Disconnect", <<>>, NoData)
PeerRequest == Message("PeerRequest", <<>>, NoData)
PeerResponse(peer_ips) == Message("PeerResponse", <<peer_ips>>, NoData)
Ping(version, fork_depth, node_type, status, block_hash, block_header) ==
    Message("Ping", <<version, fork_depth, node_type, status, block_hash>>, block_header)
Pong(is_fork, block_locators) == Message("Pong", <<is_fork>>, block_locators)
UnconfirmedBlock(block_height, block_hash, block) ==
    Message("UnconfirmedBlock", <<block_height, block_hash>>, block)
UnconfirmedTransaction(transaction) == Message("UnconfirmedTransaction", <<transaction>>, NoData)
PoolRegister(address) == Message("PoolRegister", <<address>>, NoData)
PoolRequest(share_difficulty, block_template) ==
    Message("PoolRequest", <<share_difficulty>>, block_template)
PoolResponse(address, nonce, proof) == Message("PoolResponse", <<address, nonce>>, proof)
Unused == Message("Unused", <<>>, NoData)
NoMessage == Message("None", <<>>, NoData)

\* Option<bool>.
None == <<>>
Some(x) == <<x>>

\* Message::id.
id(m) ==
    CASE m.variant = "BlockRequest" -> 0
      [] m.variant = "BlockResponse" -> 1
      [] m.variant = "ChallengeRequest" -> 2
      [] m.variant = "ChallengeResponse" -> 3
      [] m.variant = "Disconnect" -> 4
      [] m.variant = "PeerRequest" -> 5
      [] m.variant = "PeerResponse" -> 6
      [] m.variant = "Ping" -> 7
      [] m.variant = "Pong" -> 8
      [] m.variant = "UnconfirmedBlock" -> 9
      [] m.variant = "UnconfirmedTransaction" -> 10
      [] m.variant = "PoolRegister" -> 11
      [] m.variant = "PoolRequest" -> 12
      [] m.variant = "PoolResponse" -> 13
      [] m.variant = "Unused" -> 14

\* serialized_is_fork with the bytes of the two booleans exchanged.
serialized_is_fork_swapped(is_fork) ==
    IF is_fork = None THEN 0
    ELSE IF is_fork[1] THEN 2 ELSE 1

\* The byte Message::serialize_data_into writes for the is_fork of a Pong.
serialized_is_fork(is_fork) ==
    IF is_fork = None THEN 0
    ELSE IF is_fork[1] THEN 1 ELSE 2

\* Message::serialize_data_into: what the call appends to the writer.
serialize_data_into(m) ==
    LET f == m.fields IN
    CASE m.variant = "BlockRequest" -> to_le_bytes(f[1], 4) \o to_le_bytes(f[2], 4)
      [] m.variant = "BlockResponse" -> serialize_blocking_into(m.data)
      [] m.variant = "ChallengeRequest" ->
            bincode_serialize_uint(f[1], 4) \o bincode_serialize_uint(f[2], 4)
                \o bincode_serialize_enum(NodeTypeVariants, f[3])
                \o bincode_serialize_enum(StateVariants, f[4])
                \o bincode_serialize_uint(f[5], 2) \o bincode_serialize_uint(f[6], 8)
                \o bincode_serialize_uint(f[7], 16)
      [] m.variant = "ChallengeResponse" -> serialize_blocking_into(m.data)
      [] m.variant = "Disconnect" -> <<>>
      [] m.variant = "PeerRequest" -> <<>>
      [] m.variant = "PeerResponse" -> bincode_serialize_vec(f[1])
      [] m.variant = "Ping" ->
            bincode_serialize_uint(f[1], 4) \o bincode_serialize_uint(f[2], 4)
                \o bincode_serialize_enum(NodeTypeVariants, f[3])
                \o bincode_serialize_enum(StateVariants, f[4])
                \o bincode_serialize_bytes32(f[5])
                \o serialize_blocking_into(m.data)
      [] m.variant = "Pong" -> <<serialized_is_fork(f[1])>> \o serialize_blocking_into(m.data)
      [] m.variant = "UnconfirmedBlock" ->
            to_le_bytes(f[1], 4) \o f[2] \o serialize_blocking_into(m.data)
      [] m.variant = "UnconfirmedTransaction" -> bincode_serialize_object(f[1])
      [] m.variant = "PoolRegister" -> bincode_serialize_bytes32(f[1])
      [] m.variant = "PoolRequest" ->
            bincode_serialize_uint(f[1], 8) \o serialize_blocking_into(m.data)
      [] m.variant = "PoolResponse" ->
            bincode_serialize_bytes32(f[1]) \o bincode_serialize_bytes32(f[2])
                \o serialize_blocking_into(m.data)
      [] m.variant = "Unused" -> <<>>

\* Message::serialize_into: the ID, then the data.
serialize_into(m) == to_le_bytes(id(m), 2) \o serialize_data_into(m)

\* The outcome of Message::deserialize: a message, an error, or a panic.
DeserializeOk(m) == [kind |-> "Ok", msg |-> m]
DeserializeErr == [kind |-> "Err", msg |-> NoMessage]
DeserializePanic == [kind |-> "Panic", msg |-> NoMessage]

\* deserialized_is_fork that takes every other byte for "unknown".
deserialized_is_fork_lenient(byte) ==
    CASE byte = 1 -> Ok(Some(TRUE))
      [] byte = 2 -> Ok(Some(FALSE))
      [] OTHER -> Ok(None)

\* The is_fork Message::deserialize reads from the first data byte of a Pong.
deserialized_is_fork(byte) ==
    CASE byte = 0 -> Ok(None)
      [] byte = 1 -> Ok(Some(TRUE))
      [] byte = 2 -> Ok(Some(FALSE))
      [] OTHER -> Err

\* is_empty that lets one byte pass.
is_empty_but_one(data) == Len(data) <= 1

\* data.is_empty(), the test of the Disconnect and PeerRequest arms.
is_empty(data) == Len(data) = 0

\* The (version, fork_depth, node_type, status) that open a ChallengeRequest
\* and a Ping.
deserialize_handshake(data) ==
    LET node_type == bincode_deserialize_enum(NodeTypeVariants, SliceFrom(data, 8))
        status == bincode_deserialize_enum(StateVariants, SliceFrom(data, 12))
    IN  IF Len(data) < 16 \/ ~node_type.ok \/ ~status.ok THEN Err
        ELSE Ok(<<from_le_bytes(Slice(data, 0, 4)), from_le_bytes(Slice(data, 4, 8)),
                  Unwrap(node_type), Unwrap(status)>>)

\* Message::deserialize, the arm of each ID.
deserialize_data(message_id, data) ==
    CASE message_id = 0 ->
            IF ~InRange(data, 0, 4) \/ ~InRange(data, 4, 8) THEN DeserializePanic
            ELSE DeserializeOk(BlockRequest(Unwrap(bincode_deserialize_uint(Slice(data, 0, 4), 4)),
                                            Unwrap(bincode_deserialize_uint(Slice(data, 4, 8), 4))))
      [] message_id = 1 -> DeserializeOk(BlockResponse(Buffer(data)))
      [] message_id = 2 ->
            LET head == deserialize_handshake(data)
            IN  IF ~head.ok \/ Len(data) < 42 THEN DeserializeErr
                ELSE DeserializeOk(ChallengeRequest(
                        Unwrap(head)[1], Unwrap(head)[2], Unwrap(head)[3], Unwrap(head)[4],
                        from_le_bytes(Slice(data, 16, 18)), from_le_bytes(Slice(data, 18, 26)),
                        from_le_bytes(Slice(data, 26, 42))))
      [] message_id = 3 -> DeserializeOk(ChallengeResponse(Buffer(data)))
      [] message_id = 4 ->
            IF is_empty(data) THEN DeserializeOk(Disconnect) ELSE DeserializeErr
      [] message_id = 5 ->
            IF is_empty(data) THEN DeserializeOk(PeerRequest) ELSE DeserializeErr
      [] message_id = 6 ->
            LET peer_ips == bincode_deserialize_vec(data)
            IN  IF peer_ips.ok THEN DeserializeOk(PeerResponse(Unwrap(peer_ips)))
                ELSE DeserializeErr
      [] message_id = 7 ->
            IF ~InRange(data, 0, 48) THEN DeserializePanic
            ELSE LET head == deserialize_handshake(Slice(data, 0, 48))
                 IN  IF ~head.ok THEN DeserializeErr
                     ELSE DeserializeOk(Ping(
                            Unwrap(head)[1], Unwrap(head)[2], Unwrap(head)[3], Unwrap(head)[4],
                            Unwrap(bincode_deserialize_bytes32(Slice(data, 16, 48))),
                            Buffer(SliceFrom(data, 48))))
      [] message_id = 8 ->
            IF ~InRange(data, 0, 1) THEN DeserializePanic
            ELSE LET is_fork == deserialized_is_fork(data[1])
                 IN  IF ~is_fork.ok THEN DeserializeErr
                     ELSE DeserializeOk(Pong(Unwrap(is_fork), Buffer(SliceFrom(data, 1))))
      [] message_id = 9 ->
            IF ~InRange(data, 0, 4) \/ ~InRange(data, 4, 36) THEN DeserializePanic
            ELSE DeserializeOk(UnconfirmedBlock(
                    Unwrap(bincode_deserialize_uint(Slice(data, 0, 4), 4)),
                    Unwrap(bincode_deserialize_bytes32(Slice(data, 4, 36))),
                    Buffer(SliceFrom(data, 36))))
      [] message_id = 10 ->
            LET transaction == bincode_deserialize_object(data)
            IN  IF transaction.ok THEN DeserializeOk(UnconfirmedTransaction(Unwrap(transaction)))
                ELSE DeserializeErr
      [] message_id = 11 ->
            LET address == bincode_deserialize_bytes32(data)
            IN  IF address.ok THEN DeserializeOk(PoolRegister(Unwrap(address)))
                ELSE DeserializeErr
      [] message_id = 12 ->
            IF ~InRange(data, 0, 8) THEN DeserializePanic
            ELSE DeserializeOk(PoolRequest(
                    Unwrap(bincode_deserialize_uint(Slice(data, 0, 8), 8)),
                    Buffer(SliceFrom(data, 8))))
      [] message_id = 13 ->
            IF ~InRange(data, 0, 32) \/ ~InRange(data, 32, 64) THEN DeserializePanic
            ELSE DeserializeOk(PoolResponse(
                    Unwrap(bincode_deserialize_bytes32(Slice(data, 0, 32))),
                    Unwrap(bincode_deserialize_bytes32(Slice(data, 32, 64))),
                    Buffer(SliceFrom(data, 64))))
      [] OTHER -> DeserializeErr

\* deserialize that reads the ID without a look at the length of the buffer.
deserialize_unchecked(buffer) ==
    IF ~InRange(buffer, 0, 2) THEN DeserializePanic
    ELSE deserialize_data(from_le_bytes(Slice(buffer, 0, 2)), SliceFrom(buffer, 2))

\* deserialize that takes the ID from the first byte alone.
deserialize_low_byte_id(buffer) ==
    IF Len(buffer) < 2 THEN DeserializeErr
    ELSE deserialize_data(buffer[1], SliceFrom(buffer, 2))

\* Message::deserialize.
deserialize(buffer) ==
    IF Len(buffer) < 2 THEN DeserializeErr
    ELSE deserialize_data(from_le_bytes(Slice(buffer, 0, 2)), SliceFrom(buffer, 2))

---------------------------------------------------------------------------
(* The codec.                                                              *)

\* encode whose length counts the length field too.
encode_counting_header(m, buffer) ==
    LET written == buffer \o to_le_bytes(0, 4) \o serialize_into(m)
    IN  to_le_bytes(Len(written), 4) \o SliceFrom(written, 4)

\* Encoder::encode: the output buffer after the call.
encode(m, buffer) ==
    LET written == buffer \o to_le_bytes(0, 4) \o serialize_into(m)
        len_slice == to_le_bytes(Len(SliceFrom(written, 4)), 4)
    IN  len_slice \o SliceFrom(written, 4)

\* The outcome of Decoder::decode: what it returns, the receive buffer it
\* leaves and the capacity it asked the buffer to reserve.  Both errors are
\* std::io::Error of kind InvalidData: "TooLarge" is the one of the length
\* check, "Deserialize" the one that wraps the error of Message::deserialize.
DecodeResult(kind, m, error, buffer, reserve) ==
    [kind |-> kind, msg |-> m, error |-> error, source |-> buffer, reserve |-> reserve]

\* too_large that turns away a frame at the limit.
too_large_at_limit(length) == length >= MAXIMUM_MESSAGE_SIZE

\* too_large that lets one byte more pass.
too_large_off_by_one(length) == length > MAXIMUM_MESSAGE_SIZE + 1

\* The length check of Decoder::decode.
too_large(length) == length > MAXIMUM_MESSAGE_SIZE

\* not_yet_arrived that forgets the four bytes of the length marker.
not_yet_arrived_without_marker(buffer, length) == Len(buffer) < length

\* The full message has not yet arrived.
not_yet_arrived(buffer, length) == Len(buffer) < 4 + length

\* advance that drops everything the buffer holds.
advance_to_end(buffer, length) == <<>>

\* advance that forgets the four bytes of the length marker.
advance_without_marker(buffer, length) == SliceFrom(buffer, length)

\* What source.advance(4 + length) leaves.
advance(buffer, length) == SliceFrom(buffer, 4 + length)

\* decode that returns the error of a bad frame before it advances the buffer.
decode_returning_early(buffer) ==
    IF Len(buffer) < 4 THEN DecodeResult("None", NoMessage, "", buffer, 0)
    ELSE LET length == from_le_bytes(Slice(buffer, 0, 4)) IN
         IF too_large(length)
         THEN DecodeResult("Err", NoMessage, "TooLarge", buffer, 0)
         ELSE IF not_yet_arrived(buffer, length)
         THEN DecodeResult("None", NoMessage, "", buffer, 4 + length - Len(buffer))
         ELSE IF ~InRange(SliceFrom(buffer, 4), 0, length)
         THEN DecodeResult("Panic", NoMessage, "", buffer, 0)
         ELSE LET result == deserialize(Slice(SliceFrom(buffer, 4), 0, length)) IN
              CASE result.kind = "Ok" ->
                      DecodeResult("Some", result.msg, "", advance(buffer, length), 0)
                [] result.kind = "Err" ->
                      DecodeResult("Err", NoMessage, "Deserialize", buffer, 0)
                [] result.kind = "Panic" ->
                      DecodeResult("Panic", NoMessage, "", buffer, 0)

\* Decoder::decode.
decode(buffer) ==
    IF Len(buffer) < 4 THEN DecodeResult("None", NoMessage, "", buffer, 0)
    ELSE LET length == from_le_bytes(Slice(buffer, 0, 4)) IN
         IF too_large(length)
         THEN DecodeResult("Err", NoMessage, "TooLarge", buffer, 0)
         ELSE IF not_yet_arrived(buffer, length)
         THEN DecodeResult("None", NoMessage, "", buffer, 4 + length - Len(buffer))
         ELSE IF ~InRange(SliceFrom(buffer, 4), 0, length)
         THEN DecodeResult("Panic", NoMessage, "", buffer, 0)
         ELSE LET result == deserialize(Slice(SliceFrom(buffer, 4), 0, length)) IN
              CASE result.kind = "Ok" ->
                      DecodeResult("Some", result.msg, "", advance(buffer, length), 0)
                [] result.kind = "Err" ->
                      DecodeResult("Err", NoMessage, "Deserialize", advance(buffer, length), 0)
                [] result.kind = "Panic" ->
                      DecodeResult("Panic", NoMessage, "", buffer, 0)

---------------------------------------------------------------------------
(* The values the model draws its inputs from.                             *)

Bytes32(b) == [i \in 1..32 |-> IF i = 1 THEN b ELSE 0]

Heights == {100, 349}
Hashes == {Bytes32(1), Bytes32(200)}
PayloadObjects == {0, 513}
Datas == {Object(x) : x \in PayloadObjects} \cup {Buffer(b) : b \in {<<>>, <<9>>, <<1, 0, 7>>}}
SocketAddrs ==
    {V4(<<127, 0, 0, 1>>, 4135), V6([i \in 1..16 |-> IF i = 16 THEN 1 ELSE 0], 4132)}
PeerLists == {<<>>} \cup {<<a>> : a \in SocketAddrs} \cup {<<a, b>> : a \in SocketAddrs, b \in SocketAddrs}

Variants ==
    {"BlockRequest", "BlockResponse", "ChallengeRequest", "ChallengeResponse", "Disconnect",
     "PeerRequest", "PeerResponse", "Ping", "Pong", "UnconfirmedBlock",
     "UnconfirmedTransaction", "PoolRegister", "PoolRequest", "PoolResponse", "Unused"}

\* The messages of one variant.
MessagesOf(variant) ==
    CASE variant = "BlockRequest" -> {BlockRequest(s, e) : s \in Heights, e \in Heights}
      [] variant = "BlockResponse" -> {BlockResponse(d) : d \in Datas}
      [] variant = "ChallengeRequest" ->
            {ChallengeRequest(12, 4096, NodeTypeVariants[n], StateVariants[s], 4132, 5, 9) :
                n \in DOMAIN NodeTypeVariants, s \in DOMAIN StateVariants}
      [] variant = "ChallengeResponse" -> {ChallengeResponse(d) : d \in Datas}
      [] variant = "Disconnect" -> {Disconnect}
      [] variant = "PeerRequest" -> {PeerRequest}
      [] variant = "PeerResponse" -> {PeerResponse(ips) : ips \in PeerLists}
      [] variant = "Ping" ->
            {Ping(12, 4096, n, "Syncing", h, d) :
                n \in {"Client", "Prover"}, h \in Hashes, d \in Datas}
      [] variant = "Pong" ->
            {Pong(f, d) : f \in {None, Some(TRUE), Some(FALSE)}, d \in Datas}
      [] variant = "UnconfirmedBlock" ->
            {UnconfirmedBlock(n, h, d) : n \in Heights, h \in Hashes, d \in Datas}
      [] variant = "UnconfirmedTransaction" ->
            {UnconfirmedTransaction(t) : t \in PayloadObjects}
      [] variant = "PoolRegister" -> {PoolRegister(a) : a \in Hashes}
      [] variant = "PoolRequest" -> {PoolRequest(s, d) : s \in {5, 300}, d \in Datas}
      [] variant = "PoolResponse" ->
            {PoolResponse(a, n, d) : a \in Hashes, n \in Hashes, d \in Datas}
      [] variant = "Unused" -> {Unused}

\* What the output buffer may hold when encode is called: nothing, or bytes
\* written earlier and not yet flushed.
PriorContents == {<<>>, <<255>>, encode(PeerRequest, <<>>)}

\* A payload of n zero bytes with one byte set.
Pokes == {<<1, 0>>, <<1, 1>>, <<1, 2>>, <<1, 3>>, <<1, 255>>, <<9, 1>>, <<9, 7>>, <<13, 7>>}
Payload(n, poke) == [i \in 1..n |-> IF i = poke[1] THEN poke[2] ELSE 0]

\* What follows a frame in the receive buffer.
Trailers == {<<>>, <<255>>, encode(Disconnect, <<>>)}

\* The receive buffers an arbitrary peer fills: a header declaring `length`,
\* then the bytes of `body`, then a trailer.
Received(length, body, trailer) == to_le_bytes(length, 4) \o body \o trailer

\* The IDs of the frames: every ID up to MaxId, and one above a byte.
FrameIds == 0..MaxId \cup {256}

\* The bodies: a 2-byte ID and a payload, or less than an ID.
Bodies ==
    {to_le_bytes(i, 2) \o Payload(n, poke) : i \in FrameIds, n \in 0..MaxPayload, poke \in Pokes}
        \cup {<<>>, <<4>>}

\* The bodies whose payload is all zero.
ZeroBodies ==
    {to_le_bytes(i, 2) \o Zeros(n) : i \in FrameIds, n \in 0..MaxPayload} \cup {<<>>, <<4>>}

\* The lengths a header declares beside the length of its body.
DeclaredLengths == {MAXIMUM_MESSAGE_SIZE, MAXIMUM_MESSAGE_SIZE + 1, 2 * MAXIMUM_MESSAGE_SIZE}

ReceiveBuffers ==
    {Received(Len(body), body, trailer) : body \in Bodies, trailer \in Trailers}
        \cup {Received(length, body, <<>>) : length \in DeclaredLengths, body \in ZeroBodies}
        \cup {Received(Len(body) + 1, body, <<>>) : body \in ZeroBodies}

---------------------------------------------------------------------------
(* Environment: the constants of the trait, the presets that implement it, *)
(* and the accessors of its statics.                                       *)

\* A socket address literal "a.b.c.d:port" is the tuple <<a, b, c, d, port>>.
LOCAL_SYNC_NODES == << <<127, 0, 0, 1, 4135>> >>

\* The SYNC_NODES of the four trial presets.
TRIAL_SYNC_NODES ==
    << <<144, 126, 219, 193, 4132>>, <<165, 232, 145, 194, 4132>>,
       <<143, 198, 164, 241, 4132>>, <<188, 166, 7, 13, 4132>>,
       <<167, 99, 40, 226, 4132>>, <<159, 223, 124, 150, 4132>>,
       <<137, 184, 192, 155, 4132>>, <<147, 182, 213, 228, 4132>>,
       <<137, 184, 202, 162, 4132>>, <<159, 223, 118, 35, 4132>>,
       <<161, 35, 106, 91, 4132>>, <<157, 245, 133, 62, 4132>>,
       <<143, 198, 166, 150, 4132>> >>

\* N::NETWORK_ID of the networks a preset is instantiated with.
NetworkIds == {1, 2}

\* The associated constants the trait gives a value to.
TraitDefaults(NETWORK_ID) ==
    [ MESSAGE_VERSION |-> 12,
      COINBASE_IS_PUBLIC |-> FALSE,
      DEFAULT_NODE_PORT |-> 4130 + NETWORK_ID,
      DEFAULT_RPC_PORT |-> 3030 + NETWORK_ID,
      BEACON_NODES |-> <<>>,
      SYNC_NODES |-> LOCAL_SYNC_NODES,
      HEARTBEAT_IN_SECS |-> 9,
      CONNECTION_TIMEOUT_IN_MILLIS |-> 500,
      PING_SLEEP_IN_SECS |-> 60,
      RADIO_SILENCE_IN_SECS |-> 210,
      FAILURE_EXPIRY_TIME_IN_SECS |-> 7200,
      MAXIMUM_CONNECTION_FAILURES |-> 3,
      MAXIMUM_CANDIDATE_PEERS |-> 10000,
      MAXIMUM_MESSAGE_SIZE |-> MAXIMUM_MESSAGE_SIZE,
      MAXIMUM_BLOCK_REQUEST |-> 250,
      MAXIMUM_NUMBER_OF_FAILURES |-> 1024 ]

\* The constants the trait gives a value to, by name.
DefaultedConstants == DOMAIN TraitDefaults(1)

\* What each preset's impl block sets.
Client ==
    [ NODE_TYPE |-> "Client",
      MINIMUM_NUMBER_OF_PEERS |-> 2,
      MAXIMUM_NUMBER_OF_PEERS |-> 21 ]

Miner ==
    [ NODE_TYPE |-> "Miner",
      COINBASE_IS_PUBLIC |-> TRUE,
      MINIMUM_NUMBER_OF_PEERS |-> 1,
      MAXIMUM_NUMBER_OF_PEERS |-> 21 ]

Operator ==
    [ NODE_TYPE |-> "Operator",
      COINBASE_IS_PUBLIC |-> TRUE,
      MINIMUM_NUMBER_OF_PEERS |-> 1,
      MAXIMUM_NUMBER_OF_PEERS |-> 1000 ]

Prover ==
    [ NODE_TYPE |-> "Prover",
      COINBASE_IS_PUBLIC |-> TRUE,
      MINIMUM_NUMBER_OF_PEERS |-> 1,
      MAXIMUM_NUMBER_OF_PEERS |-> 21 ]

\* SyncNode without its own HEARTBEAT_IN_SECS.
SyncNode_default_heartbeat ==
    [ NODE_TYPE |-> "Sync",
      MINIMUM_NUMBER_OF_PEERS |-> 35,
      MAXIMUM_NUMBER_OF_PEERS |-> 1024 ]

SyncNode ==
    [ NODE_TYPE |-> "Sync",
      MINIMUM_NUMBER_OF_PEERS |-> 35,
      MAXIMUM_NUMBER_OF_PEERS |-> 1024,
      HEARTBEAT_IN_SECS |-> 5 ]

ClientTrial ==
    [ NODE_TYPE |-> "Client",
      SYNC_NODES |-> TRIAL_SYNC_NODES,
      MINIMUM_NUMBER_OF_PEERS |-> 11,
      MAXIMUM_NUMBER_OF_PEERS |-> 31 ]

MinerTrial ==
    [ NODE_TYPE |-> "Miner",
      SYNC_NODES |-> TRIAL_SYNC_NODES,
      MINIMUM_NUMBER_OF_PEERS |-> 11,
      MAXIMUM_NUMBER_OF_PEERS |-> 21,
      COINBASE_IS_PUBLIC |-> TRUE ]

OperatorTrial ==
    [ NODE_TYPE |-> "Operator",
      SYNC_NODES |-> TRIAL_SYNC_NODES,
      MINIMUM_NUMBER_OF_PEERS |-> 11,
      MAXIMUM_NUMBER_OF_PEERS |-> 1000,
      COINBASE_IS_PUBLIC |-> TRUE ]

ProverTrial ==
    [ NODE_TYPE |-> "Prover",
      SYNC_NODES |-> TRIAL_SYNC_NODES,
      MINIMUM_NUMBER_OF_PEERS |-> 11,
      MAXIMUM_NUMBER_OF_PEERS |-> 21,
      COINBASE_IS_PUBLIC |-> TRUE ]

Presets == {"Client", "Miner", "Operator", "Prover", "SyncNode",
            "ClientTrial", "MinerTrial", "OperatorTrial", "ProverTrial"}

TrialPresets == {"ClientTrial", "MinerTrial", "OperatorTrial", "ProverTrial"}

Impl(E) ==
    CASE E = "Client" -> Client
      [] E = "Miner" -> Miner
      [] E = "Operator" -> Operator
      [] E = "Prover" -> Prover
      [] E = "SyncNode" -> SyncNode
      [] E = "ClientTrial" -> ClientTrial
      [] E = "MinerTrial" -> MinerTrial
      [] E = "OperatorTrial" -> OperatorTrial
      [] E = "ProverTrial" -> ProverTrial

\* The constants of an implementation: what the impl block sets, and the
\* trait's value for everything else.
Environment(impl, NETWORK_ID) == impl @@ TraitDefaults(NETWORK_ID)

\* str::parse::<SocketAddr>() of a literal "a.b.c.d:port".
parse(ip) == V4(<<ip[1], ip[2], ip[3], ip[4]>>, ip[5])

\* literals.iter().map(|ip| ip.parse().unwrap()).collect() into a HashSet.
collect(literals) == {parse(literals[i]) : i \in 1..Len(literals)}

\* The accessors of the trait; each default method holds one static OnceCell,
\* and that one static serves every implementation of the trait.
NodeAccessors == {"beacon_nodes", "sync_nodes"}
SingletonAccessors == {"tasks", "status", "terminator", "thread_pool"}
Accessors == NodeAccessors \cup SingletonAccessors

\* The literals the closure of a nodes accessor reads from Self.
Literals(accessor, constants) ==
    IF accessor = "beacon_nodes" THEN constants.BEACON_NODES
    ELSE IF accessor = "sync_nodes" THEN constants.SYNC_NODES
    ELSE <<>>

\* AtomicBool::new(false), the terminator as its closure builds it.
AtomicBool_new == FALSE

\* num_threads that rounds seven eighths of the CPUs up.
num_threads_ceil(num_cpus) ==
    LET n == (num_cpus * 7 + 7) \div 8
    IN  IF n >= 2 THEN n ELSE 2

\* (num_cpus::get() * 7 / 8).max(2), in usize.
num_threads(num_cpus) ==
    LET n == (num_cpus * 7) \div 8
    IN  IF n >= 2 THEN n ELSE 2

\* ThreadPoolBuilder::new().stack_size(..).num_threads(..), on a machine of
\* num_cpus CPUs.
thread_pool(num_cpus) ==
    [stack_size |-> 8 * 1024 * 1024, num_threads |-> num_threads(num_cpus),
     num_cpus |-> num_cpus]

\* What the closure handed to get_or_init builds.
initializer(accessor, literals, num_cpus) ==
    CASE accessor \in NodeAccessors -> collect(literals)
      [] accessor = "tasks" -> "Tasks::new"
      [] accessor = "status" -> "Status::new"
      [] accessor = "terminator" -> AtomicBool_new
      [] accessor = "thread_pool" -> thread_pool(num_cpus)

\* The threads of the process.
Threads == {"t1", "t2"}

\* A thread outside every accessor.
IdleThread == [pc |-> "idle", accessor |-> "", literals |-> <<>>, ret |-> None]

\* The outcome of a Data operation: none yet.
NoResult == [op |-> "none", input |-> NoData, join |-> "", before |-> <<>>, out |-> Err]

\* No implementation of the trait has been looked at yet.
NoEnvironment == [name |-> "", network |-> 0, constants |-> <<>>]

---------------------------------------------------------------------------
(* Frames too long to write out byte by byte.  A length that may pass 2^31 *)
(* is kept as the pair <<v \div 65536, v % 65536>>; a message with a large *)
(* Data::Buffer or peer list is a message of the model together with the   *)
(* number of bytes its buffer or list holds beyond those written out.      *)

\* A usize, from a length the model can count.
usize(v) == <<v \div 65536, v % 65536>>

\* a + b on usize.
usize_add(a, b) ==
    LET lo == a[2] + b[2] IN <<a[1] + b[1] + lo \div 65536, lo % 65536>>

\* a > b on usize.
usize_gt(a, b) == a[1] > b[1] \/ (a[1] = b[1] /\ a[2] > b[2])

\* `len as u32`: the low 32 bits.
as_u32(len) == <<len[1] % 65536, len[2]>>

\* `u32::from_le_bytes(..) as usize`: every u32 is a usize.
as_usize(length) == <<length[1], length[2]>>

\* The number of bytes Message::serialize_into writes for m when its buffer
\* or peer list holds `more` bytes beyond those of m: a Data::Buffer is
\* written as it is and a Vec as its count and then its entries, so the
\* further bytes add to the length and change nothing else.
serialize_into_len(m, more) == usize_add(usize(Len(serialize_into(m))), more)

\* Encoder::encode on such a message: what it returns, the length of the
\* output buffer it leaves and the u32 it writes into dst[..4].
encode_len(m, more, buffer) ==
    LET written == buffer \o to_le_bytes(0, 4) \o serialize_into(m)
        len == usize_add(usize(Len(SliceFrom(written, 4))), more)
    IN  [ok |-> TRUE,
         dst |-> usize_add(usize(Len(written)), more),
         len_slice |-> as_u32(len)]

\* The length check of Decoder::decode on the four bytes that open a frame.
decode_len(length_bytes) ==
    LET length == as_usize(length_bytes)
    IN  IF usize_gt(length, usize(MAXIMUM_MESSAGE_SIZE)) THEN "TooLarge" ELSE "Passed"

\* No large message has been encoded.
NoLarge ==
    [pc |-> "idle", m |-> NoMessage, more |-> usize(0), ok |-> FALSE,
     dst |-> usize(0), len_slice |-> usize(0), check |-> ""]

---------------------------------------------------------------------------
(* The codec at work: a message is encoded, flushed and read back; or a    *)
(* peer's bytes arrive and are decoded, and the message re-encoded.        *)

\* Nothing has been done to a Data<T>, no accessor has been called and no
\* implementation compiled.
DataIdle == held = NoData /\ writer = <<>> /\ outcome = NoResult
StaticsIdle ==
    /\ cells = [accessor \in Accessors |-> None]
    /\ installs = [accessor \in Accessors |-> 0]
    /\ threads = [t \in Threads |-> IdleThread]
EnvironmentIdle == built = NoEnvironment
LargeIdle == large = NoLarge

Idle == [kind |-> "Idle", msg |-> NoMessage, error |-> "", reserve |-> 0]

InitEncoder ==
    /\ pc = "ready"
    /\ \E variant \in Variants : message \in MessagesOf(variant)
    /\ dst \in PriorContents
    /\ source = <<>>

InitDecoder ==
    /\ pc = "received"
    /\ message = NoMessage
    /\ dst = <<>>
    /\ source \in ReceiveBuffers

Init ==
    /\ InitEncoder \/ InitDecoder
    /\ wire = <<>>
    /\ item = Idle
    /\ last = <<>>
    /\ prior = <<>>
    /\ sent = <<>>
    /\ delivered = <<>>
    /\ DataIdle /\ StaticsIdle /\ EnvironmentIdle /\ LargeIdle

\* Encoder::encode(message, dst).
Encode ==
    /\ pc = "ready"
    /\ prior' = dst
    /\ dst' = encode(message, dst)
    /\ sent' = Append(sent, message)
    /\ pc' = "encoded"
    /\ UNCHANGED <<message, wire, source, item, last, delivered>>
    /\ UNCHANGED <<dataVars, staticVars, built, large>>

\* The output buffer is written to the transport.
Flush ==
    /\ pc = "encoded"
    /\ wire' = wire \o dst
    /\ dst' = <<>>
    /\ pc' = "flushed"
    /\ UNCHANGED <<message, source, item, last, prior, sent, delivered>>
    /\ UNCHANGED <<dataVars, staticVars, built, large>>

\* The first k bytes in flight are read into the receive buffer.
Arrive(k) ==
    /\ pc = "flushed"
    /\ source' = source \o Slice(wire, 0, k)
    /\ wire' = SliceFrom(wire, k)
    /\ pc' = "received"
    /\ UNCHANGED <<message, dst, item, last, prior, sent, delivered>>
    /\ UNCHANGED <<dataVars, staticVars, built, large>>

\* Decoder::decode(source).
Decode ==
    /\ pc \in {"received", "decoded", "stream"}
    /\ item.kind # "Panic"
    /\ LET result == decode(source) IN
        /\ item' = [kind |-> result.kind, msg |-> result.msg, error |-> result.error,
                    reserve |-> result.reserve]
        /\ source' = result.source
        /\ delivered' = IF result.kind = "Some" THEN Append(delivered, result.msg)
                        ELSE delivered
    /\ last' = source
    /\ pc' = IF pc = "stream" THEN "stream" ELSE "decoded"
    /\ UNCHANGED <<message, dst, wire, prior, sent>>
    /\ UNCHANGED <<dataVars, staticVars, built, large>>

\* The message decode returned is encoded into an empty buffer.
Reencode ==
    /\ pc = "decoded"
    /\ item.kind = "Some"
    /\ message' = item.msg
    /\ prior' = <<>>
    /\ dst' = encode(item.msg, <<>>)
    /\ sent' = Append(sent, item.msg)
    /\ pc' = "reencoded"
    /\ UNCHANGED <<wire, source, item, last, delivered>>
    /\ UNCHANGED <<dataVars, staticVars, built, large>>

\* A consumer of the message decode returned deserializes its deferred field
\* with Data::deserialize_blocking.
DeserializeField ==
    /\ pc = "decoded"
    /\ item.kind = "Some"
    /\ item.msg.data # NoData
    /\ outcome = NoResult
    /\ outcome' = [op |-> "deserialize_blocking", input |-> item.msg.data, join |-> "",
                   before |-> writer, out |-> deserialize_blocking(item.msg.data)]
    /\ UNCHANGED <<codecVars, held, writer, staticVars, built, large>>

Next ==
    \/ Encode
    \/ Flush
    \/ \E k \in 0..Len(wire) : Arrive(k)
    \/ Decode
    \/ Reencode
    \/ DeserializeField

Spec == Init /\ [][Next]_vars

---------------------------------------------------------------------------
(* One connection: the sender encodes each message into its empty output   *)
(* buffer and flushes it, the transport hands the bytes over one at a      *)
(* time, and the receiver calls decode whenever it likes, so a frame may    *)
(* reach the decoder split at any byte.                                    *)

StreamVariants == {"BlockRequest", "Disconnect", "Pong", "Unused"}

\* The message of each variant the connection sends.
StreamMessage(variant) ==
    CASE variant = "BlockRequest" -> BlockRequest(100, 349)
      [] variant = "Disconnect" -> Disconnect
      [] variant = "Pong" -> Pong(Some(FALSE), Object(513))
      [] variant = "Unused" -> Unused

InitStream ==
    /\ pc = "stream"
    /\ message = NoMessage
    /\ dst = <<>>
    /\ wire = <<>>
    /\ source = <<>>
    /\ item = Idle
    /\ last = <<>>
    /\ prior = <<>>
    /\ sent = <<>>
    /\ delivered = <<>>
    /\ DataIdle /\ StaticsIdle /\ EnvironmentIdle /\ LargeIdle

\* Encoder::encode(m, dst) on the empty output buffer, and the flush of it.
Send(m) ==
    /\ pc = "stream"
    /\ Len(sent) < MaxMessages
    /\ message' = m
    /\ prior' = dst
    /\ wire' = wire \o encode(m, dst)
    /\ sent' = Append(sent, m)
    /\ UNCHANGED <<dst, source, item, last, delivered, pc>>
    /\ UNCHANGED <<dataVars, staticVars, built, large>>

\* The transport reads one more byte into the receive buffer.
Read ==
    /\ pc = "stream"
    /\ wire # <<>>
    /\ source' = Append(source, Head(wire))
    /\ wire' = Tail(wire)
    /\ UNCHANGED <<message, dst, item, last, prior, sent, delivered, pc>>
    /\ UNCHANGED <<dataVars, staticVars, built, large>>

NextStream ==
    \/ \E variant \in StreamVariants : Send(StreamMessage(variant))
    \/ Read
    \/ Decode

SpecStream == InitStream /\ [][NextStream]_vars

---------------------------------------------------------------------------
(* What the properties speak of.                                           *)

\* Structural equality of messages, a deferred field compared by its bytes.
MessageEq(a, b) ==
    /\ a.variant = b.variant
    /\ a.fields = b.fields
    /\ serialize_blocking_into(a.data) = serialize_blocking_into(b.data)

\* The length the header of the last decoded buffer declares.
DeclaredLength == from_le_bytes(Slice(last, 0, 4))

\* The last decode call found a whole frame within the size limit.
CompleteFrame ==
    /\ item.kind # "Idle"
    /\ Len(last) >= 4
    /\ DeclaredLength <= MAXIMUM_MESSAGE_SIZE
    /\ Len(last) >= 4 + DeclaredLength

\* The ID of that frame, when it has one.
FrameId == from_le_bytes(Slice(last, 4, 6))

\* The bytes the last decode call removed from the receive buffer.
Consumed == Slice(last, 0, Len(last) - Len(source))

\* The last decode call was given exactly the frame of `message`, encoded
\* into an empty buffer.
RoundTrip ==
    /\ pc = "decoded"
    /\ Len(sent) = 1
    /\ prior = <<>>
    /\ wire = <<>>
    /\ last = encode(message, <<>>)

\* The last decode call was given a strict prefix of the frame of `message`,
\* and nothing else.
StrictPrefix ==
    /\ pc = "decoded"
    /\ Len(sent) = 1
    /\ prior = <<>>
    /\ wire # <<>>
    /\ last \o wire = encode(message, <<>>)

---------------------------------------------------------------------------
(* C1.  As stated: decoding the frame of any message, Unused included,    *)
(* returns a message equal to it.                                          *)
C1_RoundTripEveryVariant ==
    RoundTrip => item.kind = "Some" /\ MessageEq(item.msg, message)

\* C1, amended: for every message M of the fourteen variants with IDs 0..13
\* (every variant but Unused), decode of the bytes encode writes for M into an
\* empty buffer returns a message structurally equal to M, deferred fields
\* compared by their encoded bytes, and consumes the whole frame.
C1_RoundTrip ==
    RoundTrip /\ message.variant # "Unused"
        => item.kind = "Some" /\ MessageEq(item.msg, message) /\ source = <<>>

C1_Witness ==
    /\ RoundTrip
    /\ message.variant = "Pong"
    /\ message.fields[1] = Some(FALSE)
    /\ message.data.state = "Object"
    /\ item.kind = "Some"
    /\ item.msg.data.state = "Buffer"

\* C2: whenever decode has returned a message and that message is encoded
\* into an empty buffer, the bytes written are the bytes decode consumed.
C2_ByteIdentity ==
    pc = "reencoded" => dst = Consumed

\* C3: decode ends with need-more-data, a message or an InvalidData error,
\* and never with a panic.
C3_NeverPanics ==
    item.kind \in {"Idle", "None", "Some", "Err"}

\* C4: when the receive buffer holds the 4-byte header and the length it
\* declares exceeds MAXIMUM_MESSAGE_SIZE, decode returns the frame-too-large
\* error, however many payload bytes are there, reserves nothing and leaves
\* the buffer as it was.
C4_FrameTooLarge ==
    item.kind # "Idle" /\ Len(last) >= 4 /\ DeclaredLength > MAXIMUM_MESSAGE_SIZE
        => /\ item.kind = "Err"
           /\ item.error = "TooLarge"
           /\ item.reserve = 0
           /\ source = last

C4_Witness ==
    /\ item.kind = "Err"
    /\ item.error = "TooLarge"
    /\ DeclaredLength = MAXIMUM_MESSAGE_SIZE + 1
    /\ Len(last) > 4 + 40

\* C5: given a strict prefix of a well-formed frame and nothing else, decode
\* returns need-more-data and leaves the receive buffer as it was.
C5_PartialFrame ==
    StrictPrefix => item.kind = "None" /\ source = last

C5_Witness ==
    /\ StrictPrefix
    /\ message.variant = "Ping"
    /\ Len(last) > 6
    /\ item.kind = "None"
    /\ item.reserve = Len(wire)

\* C6: encode into an empty buffer writes the 4-byte little-endian length,
\* the 2-byte little-endian ID and the payload; the length is 2 plus the
\* number of payload bytes and does not count itself.  Disconnect gives
\* 02 00 00 00 04 00 and BlockRequest(100, 349) gives
\* 0A 00 00 00 00 00 64 00 00 00 5D 01 00 00.
C6_FrameFormat ==
    pc = "encoded" /\ prior = <<>>
        => /\ Len(dst) >= 6
           /\ from_le_bytes(Slice(dst, 0, 4)) = 2 + Len(serialize_data_into(message))
           /\ from_le_bytes(Slice(dst, 0, 4)) = Len(dst) - 4
           /\ from_le_bytes(Slice(dst, 4, 6)) = id(message)
           /\ SliceFrom(dst, 6) = serialize_data_into(message)
           /\ (message.variant = "Disconnect" => dst = <<2, 0, 0, 0, 4, 0>>)
           /\ (MessageEq(message, BlockRequest(100, 349))
                 => dst = <<10, 0, 0, 0, 0, 0, 100, 0, 0, 0, 93, 1, 0, 0>>)

C6_Witness ==
    /\ pc = "encoded"
    /\ prior = <<>>
    /\ MessageEq(message, BlockRequest(100, 349))
    /\ dst = <<10, 0, 0, 0, 0, 0, 100, 0, 0, 0, 93, 1, 0, 0>>

\* The messages of a are the first messages of b, in order.
IsPrefix(a, b) ==
    /\ Len(a) <= Len(b)
    /\ \A i \in 1..Len(a) : MessageEq(a[i], b[i])

\* Every byte sent has reached the decoder and decode asks for more.
Drained == wire = <<>> /\ item.kind = "None" /\ last = source

\* C7.  As stated: whatever messages are sent and however their frames are
\* split, decode returns them in order, none lost, doubled or out of place.
C7_FifoEveryMessage ==
    /\ IsPrefix(delivered, sent)
    /\ Drained => Len(delivered) = Len(sent)

\* C7, amended: if the frames of messages M1..Mn, none of them Unused, are
\* written to the stream in that order and reach the receive buffer split at
\* any bytes, the decode calls return M1..Mn in that order, none lost, doubled
\* or out of place, and no call fails.
C7_Fifo ==
    (\A i \in 1..Len(sent) : sent[i].variant # "Unused")
        => /\ IsPrefix(delivered, sent)
           /\ Drained => Len(delivered) = Len(sent)
           /\ item.kind \in {"Idle", "None", "Some"}

C7_Witness ==
    /\ pc = "stream"
    /\ Len(sent) = 2
    /\ sent[1].variant = "Pong"
    /\ sent[2].variant = "BlockRequest"
    /\ Len(delivered) = 1
    /\ item.kind = "None"
    /\ Len(source) = 9
    /\ Len(wire) = 5

\* C8: a complete frame decodes to a message only if its ID is in 0..13, and
\* then the message has that ID; a complete frame with ID 14 or more yields
\* an InvalidData error whatever its payload.
C8_IdCoverage ==
    CompleteFrame
        => /\ item.kind = "Some"
                => DeclaredLength >= 2 /\ FrameId \in 0..13 /\ id(item.msg) = FrameId
           /\ DeclaredLength >= 2 /\ FrameId >= 14
                => item.kind = "Err" /\ item.error = "Deserialize"

C8_Witness ==
    /\ CompleteFrame
    /\ DeclaredLength = 2 + 20
    /\ FrameId = 14
    /\ item.kind = "Err"

\* C9: a complete frame with ID 4 or 5 decodes to Disconnect or PeerRequest
\* exactly when nothing follows the ID, and yields an InvalidData error when
\* one or more payload bytes do.
C9_ZeroPayload ==
    CompleteFrame /\ DeclaredLength >= 2 /\ FrameId \in {4, 5}
        => /\ item.kind = "Some" <=> DeclaredLength = 2
           /\ item.kind = "Some"
                => item.msg = (IF FrameId = 4 THEN Disconnect ELSE PeerRequest)
           /\ DeclaredLength > 2 => item.kind = "Err" /\ item.error = "Deserialize"

C9_Witness ==
    /\ CompleteFrame
    /\ DeclaredLength = 3
    /\ FrameId = 5
    /\ item.kind = "Err"

\* C10: the is-fork byte of a Pong is 0 for None, 1 for Some(true) and 2 for
\* Some(false) when encoded; decode maps 0, 1 and 2 back to these values, and
\* a Pong frame whose first payload byte is anything else yields an
\* InvalidData error.
C10_IsFork ==
    /\ pc = "encoded" /\ prior = <<>> /\ message.variant = "Pong"
        => dst[7] = (CASE message.fields[1] = None -> 0
                       [] message.fields[1] = Some(TRUE) -> 1
                       [] message.fields[1] = Some(FALSE) -> 2)
    /\ CompleteFrame /\ DeclaredLength >= 3 /\ FrameId = 8
        => CASE last[7] = 0 -> item.kind = "Some" /\ item.msg.fields[1] = None
             [] last[7] = 1 -> item.kind = "Some" /\ item.msg.fields[1] = Some(TRUE)
             [] last[7] = 2 -> item.kind = "Some" /\ item.msg.fields[1] = Some(FALSE)
             [] OTHER -> item.kind = "Err" /\ item.error = "Deserialize"

C10_Witness ==
    /\ CompleteFrame
    /\ DeclaredLength > 3
    /\ FrameId = 8
    /\ last[7] = 3
    /\ item.kind = "Err"

---------------------------------------------------------------------------
(* The deferred fields.                                                    *)

\* The payload of the frame the last decode call found: the bytes after the ID.
FramePayload == Slice(last, 6, 4 + DeclaredLength)

\* The IDs of the variants with a deferred field, and where the field begins.
DeferredIds == {1, 3, 7, 8, 9, 12, 13}
DeferredOffset(message_id) ==
    CASE message_id \in {1, 3} -> 0
      [] message_id = 7 -> 48
      [] message_id = 8 -> 1
      [] message_id = 9 -> 36
      [] message_id = 12 -> 8
      [] message_id = 13 -> 64

\* The eagerly decoded prefix of a payload is well-formed.
PrefixOk(message_id, payload) ==
    CASE message_id = 7 -> deserialize_handshake(Slice(payload, 0, 48)).ok
      [] message_id = 8 -> payload[1] \in {0, 1, 2}
      [] OTHER -> TRUE

\* C11: for a complete frame of a variant with a deferred field whose payload
\* reaches the field's offset, decode succeeds exactly when the prefix before
\* the offset is well-formed, whatever the bytes of the field; the Data it
\* returns is a Buffer holding the payload bytes from the offset on (0 for
\* BlockResponse and ChallengeResponse, 48 for Ping, 1 for Pong, 36 for
\* UnconfirmedBlock, 8 for PoolRequest, 64 for PoolResponse); and a field too
\* short to be an object fails only when a consumer deserializes it.
C11_DeferredLaziness ==
    /\ CompleteFrame /\ DeclaredLength >= 2 /\ FrameId \in DeferredIds
       /\ Len(FramePayload) >= DeferredOffset(FrameId)
        => /\ item.kind = "Some" <=> PrefixOk(FrameId, FramePayload)
           /\ item.kind = "Some"
                => /\ item.msg.data.state = "Buffer"
                   /\ item.msg.data.bytes = SliceFrom(FramePayload, DeferredOffset(FrameId))
    /\ outcome.op = "deserialize_blocking" /\ outcome.input.state = "Buffer"
        => outcome.out.ok <=> Len(outcome.input.bytes) >= 2

C11_Witness ==
    /\ CompleteFrame
    /\ DeclaredLength = 2 + 49
    /\ FrameId = 7
    /\ item.kind = "Some"
    /\ Len(item.msg.data.bytes) = 1
    /\ outcome.op = "deserialize_blocking"
    /\ ~outcome.out.ok

---------------------------------------------------------------------------
(* One frame a call.                                                       *)

\* C12: a decode call that returns a message removes the first 4+length bytes
\* of the receive buffer and nothing else, so the bytes that follow, a whole
\* second frame included, are left in place and in order; decoding
\* 02 00 00 00 04 00 FF yields Disconnect and leaves FF, and the call on FF
\* returns need-more-data and leaves FF.
C12_OneFrame ==
    /\ item.kind = "Some"
        => /\ Len(last) >= 4
           /\ Len(last) >= 4 + DeclaredLength
           /\ source = SliceFrom(last, 4 + DeclaredLength)
    /\ item.kind # "Idle" /\ last = <<2, 0, 0, 0, 4, 0, 255>>
        => item.kind = "Some" /\ MessageEq(item.msg, Disconnect) /\ source = <<255>>
    /\ item.kind # "Idle" /\ last = <<255>>
        => item.kind = "None" /\ source = <<255>>

C12_Witness ==
    /\ item.kind = "None"
    /\ last = <<255>>
    /\ source = <<255>>
    /\ Len(delivered) = 1
    /\ MessageEq(delivered[1], Disconnect)

---------------------------------------------------------------------------
(* A Data<T> in the hands of a caller: it is written to a writer any       *)
(* number of times, and then consumed by serialize, deserialize or         *)
(* deserialize_blocking.                                                   *)

\* The bytes a Buffer is made of, and the Buffers and Objects a caller holds.
ByteSamples == {0, 1, 255}
BufferInputs == UNION {[1..n -> ByteSamples] : n \in 0..MaxBuffer}
DataInputs == {Object(x) : x \in PayloadObjects} \cup {Buffer(b) : b \in BufferInputs}

\* No connection is at work.
CodecIdle ==
    /\ pc = "idle"
    /\ message = NoMessage
    /\ dst = <<>>
    /\ wire = <<>>
    /\ source = <<>>
    /\ item = Idle
    /\ last = <<>>
    /\ prior = <<>>
    /\ sent = <<>>
    /\ delivered = <<>>

InitData ==
    /\ held \in DataInputs
    /\ writer \in {<<>>, <<7>>}
    /\ outcome = NoResult
    /\ CodecIdle /\ StaticsIdle /\ EnvironmentIdle /\ LargeIdle

\* Data::serialize_blocking_into(&self, writer).
SerializeBlockingInto ==
    /\ held # NoData
    /\ Len(writer) < MaxWriter
    /\ writer' = writer \o serialize_blocking_into(held)
    /\ outcome' = [op |-> "serialize_blocking_into", input |-> held, join |-> "",
                   before |-> writer, out |-> Ok(<<>>)]
    /\ UNCHANGED <<held, codecVars, staticVars, built, large>>

\* Data::serialize(self).await; the worker, if one is spawned, ends as join says.
Serialize(join) ==
    /\ held # NoData
    /\ outcome' = [op |-> "serialize", input |-> held,
                   join |-> IF held.state = "Object" THEN join ELSE "",
                   before |-> writer, out |-> Data_serialize(held, join)]
    /\ held' = NoData
    /\ UNCHANGED <<writer, codecVars, staticVars, built, large>>

\* Data::deserialize_blocking(self).
DeserializeBlocking ==
    /\ held # NoData
    /\ outcome' = [op |-> "deserialize_blocking", input |-> held, join |-> "",
                   before |-> writer, out |-> deserialize_blocking(held)]
    /\ held' = NoData
    /\ UNCHANGED <<writer, codecVars, staticVars, built, large>>

\* Data::deserialize(self).await; the worker, if one is spawned, ends as join says.
Deserialize(join) ==
    /\ held # NoData
    /\ outcome' = [op |-> "deserialize", input |-> held,
                   join |-> IF held.state = "Buffer" THEN join ELSE "",
                   before |-> writer, out |-> Data_deserialize(held, join)]
    /\ held' = NoData
    /\ UNCHANGED <<writer, codecVars, staticVars, built, large>>

NextData ==
    \/ SerializeBlockingInto
    \/ \E join \in JoinOutcomes : Serialize(join)
    \/ DeserializeBlocking
    \/ \E join \in JoinOutcomes : Deserialize(join)

SpecData == InitData /\ [][NextData]_vars

\* C13: the asynchronous Data::deserialize gives what deserialize_blocking
\* gives on the same Data (the object of an Object; the object or the decode
\* error of a Buffer) whenever no worker is needed or the worker runs to its
\* end; when the worker panics or is cancelled the caller gets the error
\* "Dedicated deserialization failed", as an Err and not as a panic.
C13_AsyncDeserialize ==
    outcome.op = "deserialize"
        => /\ outcome.input.state = "Object" \/ outcome.join = "completed"
                => outcome.out = deserialize_blocking(outcome.input)
           /\ outcome.input.state = "Buffer" /\ outcome.join # "completed"
                => /\ ~outcome.out.ok
                   /\ Len(outcome.out.val) = 2
                   /\ outcome.out.val[1] = "Dedicated deserialization failed"

C13_Witness ==
    /\ outcome.op = "deserialize"
    /\ outcome.input = Buffer(<<1, 0, 255>>)
    /\ outcome.join = "panicked"
    /\ ~outcome.out.ok

\* C14: serialize_blocking_into on a Buffer appends the held bytes, as they
\* are, to the writer and leaves the container a Buffer of the same bytes; the
\* asynchronous serialize of a Buffer returns the held bytes; and a container
\* that was a Buffer is never seen as an Object: only deserialize and
\* deserialize_blocking, which consume it, give the object.
C14_BufferStaysEncoded ==
    outcome.input.state = "Buffer"
        => /\ held \in {outcome.input, NoData}
           /\ outcome.op = "serialize_blocking_into"
                => /\ writer = outcome.before \o outcome.input.bytes
                   /\ held = outcome.input
           /\ outcome.op = "serialize"
                => outcome.out.ok /\ outcome.out.val = <<outcome.input.bytes>>
           /\ held = NoData <=> outcome.op \in {"serialize", "deserialize", "deserialize_blocking"}

C14_Witness ==
    /\ outcome.op = "serialize"
    /\ outcome.input = Buffer(<<1, 0, 255>>)
    /\ outcome.out = Ok(<<1, 0, 255>>)
    /\ writer = <<7, 1, 0, 255>>

---------------------------------------------------------------------------
(* The implementations of Environment the compiler accepts: the nine       *)
(* presets, for each network, and an implementation that sets the two      *)
(* timers itself.  The trait puts no condition on the constants.           *)

\* The CONNECTION_TIMEOUT_IN_MILLIS such an implementation chooses.
Timeouts == {0, 500, 1000, 5000, 9000, 10000}

InitEnvironment ==
    /\ built = NoEnvironment
    /\ CodecIdle /\ DataIdle /\ StaticsIdle /\ LargeIdle

\* impl<N: Network> Environment for E<N>, E a preset.
CompilePreset(E, NETWORK_ID) ==
    /\ built' = [name |-> E, network |-> NETWORK_ID,
                 constants |-> Environment(Impl(E), NETWORK_ID)]
    /\ UNCHANGED <<codecVars, dataVars, staticVars, large>>

\* An impl of Environment with Client's peer limits and timers of its own.
CompileOther(heartbeat, timeout, NETWORK_ID) ==
    /\ built' = [name |-> "Other", network |-> NETWORK_ID,
                 constants |-> Environment(
                     [HEARTBEAT_IN_SECS |-> heartbeat,
                      CONNECTION_TIMEOUT_IN_MILLIS |-> timeout] @@ Client, NETWORK_ID)]
    /\ UNCHANGED <<codecVars, dataVars, staticVars, large>>

NextEnvironment ==
    \/ \E E \in Presets, NETWORK_ID \in NetworkIds : CompilePreset(E, NETWORK_ID)
    \/ \E heartbeat \in 0..MaxHeartbeat, timeout \in Timeouts, NETWORK_ID \in NetworkIds :
            CompileOther(heartbeat, timeout, NETWORK_ID)

SpecEnvironment == InitEnvironment /\ [][NextEnvironment]_vars

\* The role table: MINIMUM_NUMBER_OF_PEERS, MAXIMUM_NUMBER_OF_PEERS,
\* COINBASE_IS_PUBLIC and HEARTBEAT_IN_SECS of each preset.
RoleTable ==
    [ Client |-> <<2, 21, FALSE, 9>>,
      Miner |-> <<1, 21, TRUE, 9>>,
      Operator |-> <<1, 1000, TRUE, 9>>,
      Prover |-> <<1, 21, TRUE, 9>>,
      SyncNode |-> <<35, 1024, FALSE, 5>>,
      ClientTrial |-> <<11, 31, FALSE, 9>>,
      MinerTrial |-> <<11, 21, TRUE, 9>>,
      OperatorTrial |-> <<11, 1000, TRUE, 9>>,
      ProverTrial |-> <<11, 21, TRUE, 9>> ]

\* The preset last compiled has the constants of its row of the role table.
RoleRow ==
    <<built.constants.MINIMUM_NUMBER_OF_PEERS, built.constants.MAXIMUM_NUMBER_OF_PEERS,
      built.constants.COINBASE_IS_PUBLIC, built.constants.HEARTBEAT_IN_SECS>>
        = RoleTable[built.name]

\* The constants of names that the preset last compiled leaves at the trait's
\* value.
KeepsDefault(names) ==
    \A c \in names : built.constants[c] = TraitDefaults(built.network)[c]

\* C15, as stated: every preset has the constants of its row of the role
\* table, and every other constant the trait gives a value to keeps that value.
C15_RoleTableAllDefaults ==
    built.name \in Presets
        => /\ RoleRow
           /\ KeepsDefault(DefaultedConstants \ {"COINBASE_IS_PUBLIC", "HEARTBEAT_IN_SECS"})

\* C15, amended: every preset has the constants of its row of the role table;
\* SYNC_NODES is the trial list of 13 addresses in the four Trial presets and
\* the trait's 127.0.0.1:4135 in the others; every other constant the trait
\* gives a value to keeps that value.
C15_RoleTable ==
    built.name \in Presets
        => /\ RoleRow
           /\ KeepsDefault(DefaultedConstants
                    \ {"COINBASE_IS_PUBLIC", "HEARTBEAT_IN_SECS", "SYNC_NODES"})
           /\ built.name \in TrialPresets
                => /\ Len(built.constants.SYNC_NODES) = 13
                   /\ built.constants.SYNC_NODES[1] = <<144, 126, 219, 193, 4132>>
                   /\ built.constants.SYNC_NODES[13] = <<143, 198, 166, 150, 4132>>
           /\ built.name \notin TrialPresets
                => built.constants.SYNC_NODES = << <<127, 0, 0, 1, 4135>> >>

C15_Witness ==
    /\ built.name = "ClientTrial"
    /\ built.constants.MAXIMUM_NUMBER_OF_PEERS = 31
    /\ Len(built.constants.SYNC_NODES) = 13
    /\ built.constants.MESSAGE_VERSION = 12

\* C16: CONNECTION_TIMEOUT_IN_MILLIS <= HEARTBEAT_IN_SECS * 1000 in every
\* preset, and in every other implementation of Environment that compiles.
C16_TimeoutWithinHeartbeat ==
    built.name # ""
        => built.constants.CONNECTION_TIMEOUT_IN_MILLIS
                <= built.constants.HEARTBEAT_IN_SECS * 1000

---------------------------------------------------------------------------
(* The statics of Environment: the threads of one process call the         *)
(* accessors through any preset.  OnceCell::get_or_init returns the value  *)
(* of a cell that has one; on an empty cell one thread runs its closure    *)
(* while every other caller of that cell waits, and the closure's result   *)
(* is stored in the cell before any of them returns.                       *)

InitStatics ==
    /\ StaticsIdle
    /\ CodecIdle /\ DataIdle /\ EnvironmentIdle /\ LargeIdle

\* Thread t calls E::accessor(); the closure of a nodes accessor reads the
\* literals of E.
Call(t, E, accessor) ==
    /\ threads[t].pc \in {"idle", "returned"}
    /\ threads' = [threads EXCEPT ![t] =
            [pc |-> "called", accessor |-> accessor,
             literals |-> Literals(accessor, Environment(Impl(E), 1)), ret |-> None]]
    /\ UNCHANGED <<cells, installs, codecVars, dataVars, built, large>>

\* get_or_init finds a value in the cell and returns a reference to it.
Get(t) ==
    /\ threads[t].pc = "called"
    /\ cells[threads[t].accessor] # None
    /\ threads' = [threads EXCEPT ![t].pc = "returned",
                                  ![t].ret = cells[threads[t].accessor]]
    /\ UNCHANGED <<cells, installs, codecVars, dataVars, built, large>>

\* Begin that lets a second thread run its closure beside the first.
Begin_beside(t) ==
    /\ threads[t].pc = "called"
    /\ cells[threads[t].accessor] = None
    /\ threads' = [threads EXCEPT ![t].pc = "initializing"]
    /\ UNCHANGED <<cells, installs, codecVars, dataVars, built, large>>

\* get_or_init finds the cell empty and no closure running for it: thread t
\* is the one to run its closure.
Begin(t) ==
    /\ threads[t].pc = "called"
    /\ cells[threads[t].accessor] = None
    /\ \A u \in Threads :
            ~(threads[u].pc = "initializing" /\ threads[u].accessor = threads[t].accessor)
    /\ threads' = [threads EXCEPT ![t].pc = "initializing"]
    /\ UNCHANGED <<cells, installs, codecVars, dataVars, built, large>>

\* The closure of thread t ends, on a machine of num_cpus CPUs; its result is
\* stored in the cell and get_or_init returns a reference to it.
Install(t, num_cpus) ==
    /\ threads[t].pc = "initializing"
    /\ LET accessor == threads[t].accessor
           value == [instance |-> installs[accessor] + 1,
                     content |-> initializer(accessor, threads[t].literals, num_cpus)]
       IN  /\ cells' = [cells EXCEPT ![accessor] = Some(value)]
           /\ installs' = [installs EXCEPT ![accessor] = @ + 1]
           /\ threads' = [threads EXCEPT ![t].pc = "returned", ![t].ret = Some(value)]
    /\ UNCHANGED <<codecVars, dataVars, built, large>>

NextStatics ==
    \/ \E t \in Threads, E \in Presets, accessor \in Accessors : Call(t, E, accessor)
    \/ \E t \in Threads : Get(t)
    \/ \E t \in Threads : Begin(t)
    \/ \E t \in Threads, num_cpus \in 1..MaxCpus : Install(t, num_cpus)

SpecStatics == InitStatics /\ [][NextStatics]_vars

\* The thread pool the process has built.
Pool == cells["thread_pool"][1].content

\* C17, as stated: on a machine of c CPUs the thread pool has
\* max(2, ceil(7*c/8)) worker threads.
C17_ThreadPoolCeil ==
    cells["thread_pool"] # None
        => \/ Pool.num_threads = 2 /\ 7 * Pool.num_cpus <= 16
           \/ /\ Pool.num_threads > 2
              /\ 8 * (Pool.num_threads - 1) < 7 * Pool.num_cpus
              /\ 7 * Pool.num_cpus <= 8 * Pool.num_threads

\* C17, amended: on a machine of c CPUs the thread pool has
\* max(2, floor(7*c/8)) worker threads, each with a stack of 8 MiB.
C17_ThreadPoolFloor ==
    cells["thread_pool"] # None
        => /\ \/ Pool.num_threads = 2 /\ 7 * Pool.num_cpus < 24
              \/ /\ Pool.num_threads > 2
                 /\ 8 * Pool.num_threads <= 7 * Pool.num_cpus
                 /\ 7 * Pool.num_cpus < 8 * (Pool.num_threads + 1)
           /\ Pool.stack_size = 8388608

C17_Witness ==
    /\ cells["thread_pool"] # None
    /\ Pool.num_cpus = 7
    /\ Pool.num_threads = 6

\* C18: whatever calls came before and through whichever presets, a call of
\* E::sync_nodes() returns the set of addresses parsed from E::SYNC_NODES and
\* a call of E::beacon_nodes() returns the addresses parsed from
\* E::BEACON_NODES, the empty set.
C18_NodesOfThePreset ==
    \A t \in Threads :
        threads[t].pc = "returned" /\ threads[t].accessor \in NodeAccessors
            => /\ threads[t].ret[1].content = collect(threads[t].literals)
               /\ threads[t].accessor = "beacon_nodes" => threads[t].ret[1].content = {}

\* C19: the closure of each singleton runs at most once, whatever the
\* interleaving of the threads' calls; the cell holds its result from then
\* on; every call that has returned holds a reference to that one instance;
\* and the terminator is built false.
C19_InitializedOnce ==
    \A accessor \in SingletonAccessors :
        /\ installs[accessor] <= 1
        /\ cells[accessor] = None <=> installs[accessor] = 0
        /\ cells[accessor] # None => cells[accessor][1].instance = 1
        /\ \A t \in Threads :
                threads[t].pc = "returned" /\ threads[t].accessor = accessor
                    => threads[t].ret # None /\ threads[t].ret = cells[accessor]
        /\ accessor = "terminator" /\ cells[accessor] # None
                => cells[accessor][1].content = FALSE

C19_Witness ==
    /\ threads["t1"].pc = "returned" /\ threads["t1"].accessor = "terminator"
    /\ threads["t2"].pc = "returned" /\ threads["t2"].accessor = "terminator"
    /\ threads["t1"].ret = threads["t2"].ret
    /\ threads["t1"].ret = Some([instance |-> 1, content |-> FALSE])
    /\ installs["terminator"] = 1

---------------------------------------------------------------------------
(* A frame that cannot be decoded.                                         *)

\* The complete frame the last decode call found is one of the bad frames: an
\* unknown ID, a Disconnect or PeerRequest with payload bytes, or a Pong whose
\* is-fork byte is above 2.
BadFrame ==
    /\ CompleteFrame
    /\ DeclaredLength >= 2
    /\ \/ FrameId \notin 0..13
       \/ FrameId \in {4, 5} /\ DeclaredLength > 2
       \/ FrameId = 8 /\ DeclaredLength >= 3 /\ last[7] > 2

\* C20: a complete frame with an unknown ID, with forbidden trailing bytes or
\* with a bad Pong discriminant makes decode return an InvalidData error, and
\* every deserialization error leaves the receive buffer advanced by exactly
\* 4+length: what remains is the bytes after the bad frame, from the first
\* byte of the following frame on.
C20_BadFrameSkipped ==
    /\ BadFrame => item.kind = "Err" /\ item.error = "Deserialize"
    /\ item.kind = "Err" /\ item.error = "Deserialize"
        => /\ CompleteFrame
           /\ source = SliceFrom(last, 4 + DeclaredLength)
           /\ Len(source) = Len(last) - 4 - DeclaredLength

C20_Witness ==
    /\ BadFrame
    /\ FrameId = 15
    /\ DeclaredLength = 5
    /\ item.kind = "Err"
    /\ source = <<2, 0, 0, 0, 4, 0>>

---------------------------------------------------------------------------
(* The frames at the edges of the length field.                            *)

\* C21: the length check fails a frame exactly when the length it declares
\* is above MAXIMUM_MESSAGE_SIZE; a header that declares MAXIMUM_MESSAGE_SIZE
\* itself passes the check, and with the payload not yet there decode
\* returns need-more-data, reserves room for the rest and leaves the buffer
\* as it was.
C21_LimitIsAccepted ==
    item.kind # "Idle" /\ Len(last) >= 4
        => /\ item.kind = "Err" /\ item.error = "TooLarge"
                <=> DeclaredLength > MAXIMUM_MESSAGE_SIZE
           /\ DeclaredLength = MAXIMUM_MESSAGE_SIZE /\ Len(last) < 4 + MAXIMUM_MESSAGE_SIZE
                => /\ item.kind = "None"
                   /\ item.reserve = 4 + MAXIMUM_MESSAGE_SIZE - Len(last)
                   /\ source = last

C21_Witness ==
    /\ item.kind = "None"
    /\ Len(last) > 4
    /\ DeclaredLength = MAXIMUM_MESSAGE_SIZE
    /\ item.reserve = 4 + MAXIMUM_MESSAGE_SIZE - Len(last)

\* C22: once the 4+length bytes of a frame that declares a length of 0 or 1
\* are in the receive buffer, decode returns the InvalidData error of
\* Message::deserialize, not a message and not need-more-data, and removes
\* exactly those 4+length bytes.
C22_ShortFrame ==
    CompleteFrame /\ DeclaredLength <= 1
        => /\ item.kind = "Err"
           /\ item.error = "Deserialize"
           /\ source = SliceFrom(last, 4 + DeclaredLength)

C22_Witness ==
    /\ CompleteFrame
    /\ DeclaredLength = 1
    /\ Len(last) = 4 + 1 + 6
    /\ item.kind = "Err"
    /\ source = <<2, 0, 0, 0, 4, 0>>

---------------------------------------------------------------------------
(* Encoding behind bytes that were not yet flushed.                        *)

\* C23: whatever the output buffer held before, encode leaves those bytes as
\* they were and appends one frame: a 4-byte length of 2 plus the payload
\* size of the message, the ID and the payload.
C23_AppendsOneFrame ==
    pc = "encoded"
        => /\ Len(dst) = Len(prior) + 6 + Len(serialize_data_into(message))
           /\ Slice(dst, 0, Len(prior)) = prior
           /\ from_le_bytes(Slice(dst, Len(prior), Len(prior) + 4))
                = 2 + Len(serialize_data_into(message))
           /\ SliceFrom(dst, Len(prior) + 4) = serialize_into(message)

---------------------------------------------------------------------------
(* A large message is encoded and the frame's length read by the peer.     *)

\* The messages whose Data::Buffer or peer list is made large.
LargeTemplates ==
    UNION {{m \in MessagesOf(variant) : m.data.state = "Buffer" /\ m.data.bytes = <<>>} :
              variant \in {"BlockResponse", "ChallengeResponse", "Ping", "Pong",
                           "UnconfirmedBlock", "PoolRequest", "PoolResponse"}}
        \cup {PeerResponse(<<>>)}

\* The lengths of a large Data::Buffer: small ones, those around
\* MAXIMUM_MESSAGE_SIZE (2048 * 65536) and those around 2^32.
BufferLens ==
    {<<hi, lo>> : hi \in {0, 2047, 2048, 65535, 65536}, lo \in {0, 1, 65530, 65534, 65535}}

\* The numbers of SocketAddr::V4 entries of a large peer list.
PeerCounts == {1, 1000, 13421771, 13421772}

\* What a large message holds beyond its template, in bytes.
Mores(m) ==
    IF m.variant = "PeerResponse"
    THEN {usize(n * Len(bincode_serialize_addr(V4(<<127, 0, 0, 1>>, 4135)))) : n \in PeerCounts}
    ELSE BufferLens

InitLarge ==
    /\ large = NoLarge
    /\ CodecIdle /\ DataIdle /\ StaticsIdle /\ EnvironmentIdle

\* Encoder::encode(message, &mut dst) on an empty output buffer.
EncodeLarge(m, more) ==
    /\ large.pc = "idle"
    /\ LET encoded == encode_len(m, more, <<>>)
       IN  large' = [pc |-> "encoded", m |-> m, more |-> more, ok |-> encoded.ok,
                     dst |-> encoded.dst, len_slice |-> encoded.len_slice, check |-> ""]
    /\ UNCHANGED <<codecVars, dataVars, staticVars, built>>

\* Decoder::decode of the peer, once the four bytes of the length are in its
\* receive buffer: up to the length check.
CheckLength ==
    /\ large.pc = "encoded" /\ large.ok
    /\ large' = [large EXCEPT !.pc = "checked", !.check = decode_len(large.len_slice)]
    /\ UNCHANGED <<codecVars, dataVars, staticVars, built>>

NextLarge ==
    \/ \E m \in LargeTemplates : \E more \in Mores(m) : EncodeLarge(m, more)
    \/ CheckLength

SpecLarge == InitLarge /\ [][NextLarge]_vars

\* C24: a frame for which encode returned Ok passes the length check of a
\* Decoder of the same environment: the length it declares is the true size
\* of ID and payload, and it is not above MAXIMUM_MESSAGE_SIZE.
C24_EncodedFrameAccepted ==
    large.pc = "checked" /\ large.ok
        => /\ large.check = "Passed"
           /\ as_usize(large.len_slice) = serialize_into_len(large.m, large.more)

====
